---- MODULE Spec2Model ----
(***************************************************************************)
(* Model of src/src/main.ts (the iteration with updateVisibleCells,        *)
(* lines 1-420): a Leaflet map game.  Cells of an unbounded grid get a     *)
(* value from luck(); the player moves by keys or arrow buttons, opens     *)
(* the popup of a token-bearing rectangle and collects or doubles tokens.  *)
(*                                                                         *)
(* Positions are in tile units (TILE_DEGREES = 1e-4 degrees, step = one    *)
(* tile).  A grid key "i,j" is the tuple <<i, j>>.  null is Null for       *)
(* playerToken and the empty sequence for previousCell and for the open    *)
(* popup.                                                                  *)
(***************************************************************************)
EXTENDS Integers, Sequences, FiniteSets, TLC

VARIABLES
  latitude,      \* player latitude, tiles                     (main.ts:68)
  longitude,     \* player longitude, tiles                    (main.ts:69)
  center,        \* the map view: getCenter() as lat and lng in
                 \* quarter tiles, and zoom, the number of levels
                 \* below GAMEPLAY_ZOOM_LEVEL                 (main.ts:46)
  panning,       \* a panTo animation is running               (main.ts:122)
  cellCache,     \* key -> value, only keys that were set      (main.ts:166)
  cellLabels,    \* key -> value shown by the label marker     (main.ts:167)
  rectPopup,     \* rectangles in cellGroup: key -> value of the bound
                 \* popup closure, 0 when no popup is bound    (main.ts:168)
  highestValue,  \*                                            (main.ts:169)
  alerts,        \* number of alert() calls so far             (main.ts:182)
  status,        \* statusPanelDiv.innerText                   (main.ts:16)
  playerToken,   \*                                            (main.ts:36)
  previousCell,  \*                                            (main.ts:37)
  popup,         \* the popup open on the map, built by makePopup
  away           \* history: the cell written by the last Collect or Double
                 \* has been outside a view rectangle since that write

vars == <<latitude, longitude, center, panning, cellCache, cellLabels,
          rectPopup, highestValue, alerts, status, playerToken,
          previousCell, popup, away>>

-----------------------------------------------------------------------------
(* Program constants *)

COLLECTION_RADIUS == 50

VALUE_THRESHOLD == 2048

Step == 1

(* Bounds of the model *)

\* the player and the map centre stay within MaxLat tiles north/south of
\* the origin
MaxLat == 1

\* and within MaxLng tiles east/west of it
MaxLng == 0

\* half height and half width of the map viewport at GAMEPLAY_ZOOM_LEVEL,
\* in half tiles
ViewLat == 1

ViewLng == 0

\* the map is zoomed out by at most this many levels
MaxZoomOut == 1

\* doubling is not attempted beyond this value
MaxValue == 8192

\* the harness stops calling once this many alerts were raised
MaxAlerts == 3

Null == -1

-----------------------------------------------------------------------------
(* Pure helpers *)

\* luck("i,j") * 10 floored: a fixed pseudo-random digit per key
Luck10(i, j) ==
  LET h == (i + 8) * 9 + (j + 8) * 21 IN (((h * h) \div 17) + 4) % 10

\* variant of SpawnValue that forgets the dead value 3
SpawnValueKeepsThree(i, j) == Luck10(i, j)

\* main.ts:358-359: the value spawnCache computes for a cell
SpawnValue(i, j) ==
  LET value == Luck10(i, j) IN IF value = 3 THEN 0 ELSE value

\* Generator.generate of the design: the token value of a fresh cell, 0 for
\* no token.  A raw value in the band 1..4 is a token, except the dead
\* value 3.
Generate(k) ==
  LET raw == Luck10(k[1], k[2]) IN
  IF raw >= 1 /\ raw <= 4 /\ raw # 3 THEN raw ELSE 0

\* main.ts:365, 378: only these cells get a label, a cache entry and a popup
IsGold(value) == value >= 1 /\ value <= 4

\* main.ts:407-412 conversion, on a coordinate given in quarter tiles.
\* The quotient is exact: a coordinate on a tile edge belongs to the tile
\* north or east of the edge.
conversion(quarters) == quarters \div 4

\* variant of isTooFar that also rejects the radius itself
isTooFarAtRadius(distance) == distance >= COLLECTION_RADIUS

\* main.ts:188-190
isTooFar(distance) == distance > COLLECTION_RADIUS

\* The least integer whose square is at least need: the square root
\* rounded up
CeilSqrt(need) ==
  CHOOSE n \in 0..400 :
    /\ n * n >= need
    /\ (n = 0 \/ (n - 1) * (n - 1) < need)

\* Half a tile of TILE_DEGREES is 5.559746 m on Leaflet's sphere of radius
\* 6371000 m, and its square is 30.91078 m2: the whole part and the
\* fraction in units of 10^-5 (main.ts:34)
HalfTileSqWhole == 30

HalfTileSqFrac == 91078

\* map.distance(player, centre of cell <<i, j>>) in metres, rounded up so
\* that the comparison with the integer radius is exact.  The player is at
\* (lat, lng) tiles from the origin (0, 0) of the later iteration and the
\* cell centre at (i + 0.5, j + 0.5) tiles; dy and dx are in half tiles.
DistanceTo(lat, lng, i, j) ==
  LET dy == 2 * i + 1 - 2 * lat
      dx == 2 * j + 1 - 2 * lng
      sq == dy * dy + dx * dx
  IN  CeilSqrt(HalfTileSqWhole * sq
               + (HalfTileSqFrac * sq + 99999) \div 100000)

\* cellCache[key] as the game reads it: no entry and 0 both mean no token
CellValue(cache, k) == IF k \in DOMAIN cache THEN cache[k] ELSE 0

Put(f, k, v) == [x \in DOMAIN f \cup {k} |-> IF x = k THEN v ELSE f[x]]

Empty == [x \in {} |-> 0]

\* status messages (main.ts:18, 180, 252, 268, 299)
StatusNone == [kind |-> "none", i |-> 0, j |-> 0, value |-> 0]

StatusTooFar(distance) ==
  [kind |-> "toofar", i |-> 0, j |-> 0, value |-> distance]

StatusHolding(i, j, value) ==
  [kind |-> "holding", i |-> i, j |-> j, value |-> value]

StatusDouble(i, j, value) ==
  [kind |-> "double", i |-> i, j |-> j, value |-> value]

StatusWin(value) == [kind |-> "win", i |-> 0, j |-> 0, value |-> value]

-----------------------------------------------------------------------------
(* The game state as one record, so that the functions of main.ts can be   *)
(* composed the way the code calls them.                                   *)

Game ==
  [cellCache |-> cellCache, cellLabels |-> cellLabels,
   rectPopup |-> rectPopup, highestValue |-> highestValue,
   alerts |-> alerts, status |-> status, playerToken |-> playerToken,
   previousCell |-> previousCell]

Commit(g) ==
  /\ cellCache' = g.cellCache
  /\ cellLabels' = g.cellLabels
  /\ rectPopup' = g.rectPopup
  /\ highestValue' = g.highestValue
  /\ alerts' = g.alerts
  /\ status' = g.status
  /\ playerToken' = g.playerToken
  /\ previousCell' = g.previousCell

\* variant of updateHighestValue that notifies only above the threshold
updateHighestValueAbove(g, newValue) ==
  IF newValue > g.highestValue
  THEN IF newValue > VALUE_THRESHOLD
       THEN [g EXCEPT !.highestValue = newValue,
                      !.status = StatusWin(newValue),
                      !.alerts = @ + 1]
       ELSE [g EXCEPT !.highestValue = newValue]
  ELSE g

\* main.ts:173-185
updateHighestValue(g, newValue) ==
  IF newValue > g.highestValue
  THEN IF newValue >= VALUE_THRESHOLD
       THEN [g EXCEPT !.highestValue = newValue,
                      !.status = StatusWin(newValue),
                      !.alerts = @ + 1]
       ELSE [g EXCEPT !.highestValue = newValue]
  ELSE g

\* main.ts:211-240: the label of the key shows the value (blank for 0)
updateCellLabel(g, k, value) ==
  [g EXCEPT !.cellLabels = Put(@, k, value)]

\* variant of setCell that does not report the value to the record
setCellNoRecord(g, k, value) ==
  updateCellLabel([g EXCEPT !.cellCache = Put(@, k, value)], k, value)

\* main.ts:196-200
setCell(g, k, value) ==
  updateHighestValue(
    updateCellLabel([g EXCEPT !.cellCache = Put(@, k, value)], k, value),
    value)

\* rect.bindPopup / rect.unbindPopup: a rectangle that was removed from
\* cellGroup by clearLayers is no longer the rectangle shown at its key
bindPopup(g, k, rectLive, value) ==
  IF rectLive /\ k \in DOMAIN g.rectPopup
  THEN [g EXCEPT !.rectPopup[k] = value]
  ELSE g

unbindPopup(g, k, rectLive) == bindPopup(g, k, rectLive, 0)

\* main.ts:243-274
collectToken(g, i, j, rectLive, value, distance) ==
  IF isTooFar(distance)
  THEN [g EXCEPT !.status = StatusTooFar(distance)]
  ELSE
    LET g1 == IF g.playerToken # Null /\ g.previousCell # <<>>
              THEN LET p == g.previousCell[1] IN
                   bindPopup(setCell(g, <<p.i, p.j>>, p.value),
                             <<p.i, p.j>>, p.rectLive, p.value)
              ELSE g
        g2 == [g1 EXCEPT
                 !.playerToken = value,
                 !.previousCell = <<[i |-> i, j |-> j, value |-> value,
                                     rectLive |-> rectLive]>>,
                 !.status = StatusHolding(i, j, value)]
    IN  unbindPopup(setCell(g2, <<i, j>>, 0), <<i, j>>, rectLive)

\* variant of doubleToken that triples the value
doubleTokenTriple(g, i, j, rectLive, value, distance) ==
  IF isTooFar(distance)
  THEN [g EXCEPT !.status = StatusTooFar(distance)]
  ELSE
    LET newValue == value * 3
        g1 == bindPopup(setCell(g, <<i, j>>, newValue),
                        <<i, j>>, rectLive, newValue)
    IN  [g1 EXCEPT !.playerToken = Null,
                   !.previousCell = <<>>,
                   !.status = StatusDouble(i, j, newValue)]

\* variant of doubleToken that keeps previousCell
doubleTokenKeepsOrigin(g, i, j, rectLive, value, distance) ==
  IF isTooFar(distance)
  THEN [g EXCEPT !.status = StatusTooFar(distance)]
  ELSE
    LET newValue == value * 2
        g1 == bindPopup(setCell(g, <<i, j>>, newValue),
                        <<i, j>>, rectLive, newValue)
    IN  [g1 EXCEPT !.playerToken = Null,
                   !.status = StatusDouble(i, j, newValue)]

\* main.ts:277-300
doubleToken(g, i, j, rectLive, value, distance) ==
  IF isTooFar(distance)
  THEN [g EXCEPT !.status = StatusTooFar(distance)]
  ELSE
    LET newValue == value * 2
        g1 == bindPopup(setCell(g, <<i, j>>, newValue),
                        <<i, j>>, rectLive, newValue)
    IN  [g1 EXCEPT !.playerToken = Null,
                   !.previousCell = <<>>,
                   !.status = StatusDouble(i, j, newValue)]

\* main.ts:303-345: what the popup closure captures, and which buttons it
\* disables, when the popup is opened
makePopup(i, j, value, lat, lng, token) ==
  LET distance == DistanceTo(lat, lng, i, j) IN
  [i |-> i, j |-> j, value |-> value, distance |-> distance,
   collectDisabled |-> isTooFar(distance),
   doubleDisabled |-> \/ isTooFar(distance)
                      \/ token = Null
                      \/ token # value,
   bound |-> TRUE, rectLive |-> TRUE]

\* main.ts:348-382
spawnCache(g, i, j) ==
  LET value == SpawnValue(i, j) IN
  IF IsGold(value)
  THEN LET g1 == setCell(g, <<i, j>>, value) IN
       [g1 EXCEPT !.rectPopup = Put(@, <<i, j>>, value)]
  ELSE [g EXCEPT !.rectPopup = Put(@, <<i, j>>, 0)]

\* map.getBounds(): half the height and half the width of the map in
\* quarter tiles; each zoom level below GAMEPLAY_ZOOM_LEVEL doubles them.
\* The bounds are the centre minus and plus these, exactly; for every
\* centre within MaxLat at ViewLat and MaxZoomOut the same difference
\* taken in doubles and divided by TILE_DEGREES has the same floor.
HalfHeight(c) == 2 * ViewLat * 2 ^ c.zoom

HalfWidth(c) == 2 * ViewLng * 2 ^ c.zoom

\* main.ts:386-391: the rectangle of keys the map bounds cover
IMin(c) == conversion(c.lat - HalfHeight(c))

IMax(c) == conversion(c.lat + HalfHeight(c))

JMin(c) == conversion(c.lng - HalfWidth(c))

JMax(c) == conversion(c.lng + HalfWidth(c))

InView(c, k) ==
  /\ k[1] >= IMin(c) /\ k[1] <= IMax(c)
  /\ k[2] >= JMin(c) /\ k[2] <= JMax(c)

\* main.ts:399-403: the two nested loops.  Each spawnCache call has
\* returned before the loop goes on to the next cell: "done" is the game
\* after the call.
RECURSIVE SpawnFrom(_, _, _, _)
SpawnFrom(g, c, i, j) ==
  IF i > IMax(c) THEN g
  ELSE IF j > JMax(c) THEN SpawnFrom(g, c, i + 1, JMin(c))
  ELSE CHOOSE r \in {SpawnFrom(done, c, i, j + 1) :
                       done \in {spawnCache(g, i, j)}} : TRUE

\* main.ts:385-404.  clearLayers removes every rectangle, so the rectangle
\* previousCell refers to is no longer on the map.
updateVisibleCells(g, c) ==
  LET cleared ==
        [g EXCEPT
           !.cellCache = Empty,
           !.cellLabels = Empty,
           !.rectPopup = Empty,
           !.previousCell =
              IF @ = <<>> THEN @ ELSE <<[@[1] EXCEPT !.rectLive = FALSE]>>]
  IN  SpawnFrom(cleared, c, IMin(c), JMin(c))

\* Removing a rectangle closes its popup while the popup is still bound to
\* it (Leaflet's "remove" handler); a popup that was unbound by
\* unbindPopup stays open, its rectangle gone.
PopupAfterClear(p) ==
  IF p = <<>> \/ p[1].bound THEN <<>>
  ELSE <<[p[1] EXCEPT !.rectLive = FALSE]>>

-----------------------------------------------------------------------------
(* Initial state: the module has run to its end, line 415 included *)

Origin == [lat |-> 0, lng |-> 0, zoom |-> 0]

Game0 ==
  [cellCache |-> Empty, cellLabels |-> Empty, rectPopup |-> Empty,
   highestValue |-> 0, alerts |-> 0, status |-> StatusNone,
   playerToken |-> Null, previousCell |-> <<>>]

Init ==
  /\ latitude = 0
  /\ longitude = 0
  /\ center = Origin
  /\ panning = FALSE
  /\ popup = <<>>
  /\ away = FALSE
  /\ LET g == updateVisibleCells(Game0, Origin) IN
     /\ cellCache = g.cellCache
     /\ cellLabels = g.cellLabels
     /\ rectPopup = g.rectPopup
     /\ highestValue = g.highestValue
     /\ alerts = g.alerts
     /\ status = g.status
     /\ playerToken = g.playerToken
     /\ previousCell = g.previousCell

-----------------------------------------------------------------------------
(* Events *)

\* The cell and the value the last Collect or Double wrote, as the status
\* line reports it (main.ts:268, 299): Collect leaves its cell empty,
\* Double leaves newValue.
LastWritten ==
  IF status.kind = "holding"
  THEN <<[k |-> <<status.i, status.j>>, value |-> 0]>>
  ELSE IF status.kind = "double"
  THEN <<[k |-> <<status.i, status.j>>, value |-> status.value]>>
  ELSE <<>>

AwayAfter(cs) ==
  /\ LastWritten # <<>>
  /\ (away \/ \E n \in 1..Len(cs) : ~InView(cs[n], LastWritten[1].k))

Directions == {"up", "down", "left", "right"}

DLat(dir) == IF dir = "up" THEN Step ELSE IF dir = "down" THEN -Step ELSE 0

DLng(dir) ==
  IF dir = "right" THEN Step ELSE IF dir = "left" THEN -Step ELSE 0

InBounds(lat, lng) ==
  /\ lat >= -MaxLat /\ lat <= MaxLat
  /\ lng >= -MaxLng /\ lng <= MaxLng

\* updateVisibleCells called once for each view of cs, in order
RECURSIVE UpdateAll(_, _)
UpdateAll(g, cs) ==
  IF cs = <<>> THEN g
  ELSE CHOOSE r \in {UpdateAll(done, Tail(cs)) :
                       done \in {updateVisibleCells(g, Head(cs))}} : TRUE

\* what every event that updates the view does to the cells, the open
\* popup and the history
ViewUpdated(cs) ==
  /\ popup' = PopupAfterClear(popup)
  /\ away' = AwayAfter(cs)
  /\ Commit(UpdateAll(Game, cs))

\* map.panTo(newPos) always aims at the player's position (main.ts:122,
\* 152)
Target ==
  [lat |-> 4 * latitude, lng |-> 4 * longitude, zoom |-> center.zoom]

Lo(a, b) == IF a <= b THEN a ELSE b

Hi(a, b) == IF a <= b THEN b ELSE a

\* the centres a pan animation from c to t passes before it reaches t
Between(c, t) ==
  {p \in [lat : Lo(c.lat, t.lat)..Hi(c.lat, t.lat),
          lng : Lo(c.lng, t.lng)..Hi(c.lng, t.lng),
          zoom : {c.zoom}] :
     /\ (p.lat - c.lat) * (t.lng - c.lng)
          = (p.lng - c.lng) * (t.lat - c.lat)
     /\ ~(p.lat = t.lat /\ p.lng = t.lng)}

\* where the map centre is when an event arrives: anywhere on the way of
\* a running animation
Stops == IF panning THEN Between(center, Target) ELSE {center}

\* Leaflet's map._stop(), called by setView inside panTo: a running
\* animation ends where it is and fires moveend (main.ts:416) before
\* panTo returns
Stopped(h) == IF panning THEN <<h>> ELSE <<>>

Abs(n) == IF n < 0 THEN -n ELSE n

\* main.ts:117-124 movePlayer, and main.ts:126-154 with 417-419: the
\* player moves one step; panTo stops a running animation at h, then
\* either finds the map already at the new position (moveend, no
\* animation) or starts an animation from h; updateVisibleCells then runs
\* on the bounds the map has.  Within MaxLat and MaxLng the new position
\* is a few tiles from the centre at most, an offset that fits in the
\* size of the map, so that panTo never jumps without an animation.
Move(dir) ==
  /\ InBounds(latitude + DLat(dir), longitude + DLng(dir))
  /\ latitude' = latitude + DLat(dir)
  /\ longitude' = longitude + DLng(dir)
  /\ \E h \in Stops :
       LET t == [lat |-> 4 * latitude', lng |-> 4 * longitude',
                 zoom |-> h.zoom]
       IN  IF t = h
           THEN /\ panning' = FALSE
                /\ center' = h
                /\ ViewUpdated(Stopped(h) \o <<h, h>>)
           ELSE /\ panning' = TRUE
                /\ center' = h
                /\ ViewUpdated(Stopped(h) \o <<h>>)

\* main.ts:416: the pan animation reaches its end and moveend fires
MoveEnd ==
  /\ panning
  /\ panning' = FALSE
  /\ center' = Target
  /\ ViewUpdated(<<Target>>)
  /\ UNCHANGED <<latitude, longitude>>

\* main.ts:417-419: any other key; a running animation goes on
KeyDown ==
  /\ \E h \in Stops :
       /\ center' = h
       /\ ViewUpdated(<<h>>)
  /\ UNCHANGED <<latitude, longitude, panning>>

\* main.ts:416: the start of a drag, a click on the zoom control or any
\* other call of Leaflet's map._stop() ends a running animation where it
\* is, and moveend fires at once
StopPan ==
  /\ panning
  /\ panning' = FALSE
  /\ \E h \in Stops :
       /\ center' = h
       /\ ViewUpdated(<<h>>)
  /\ UNCHANGED <<latitude, longitude>>

\* the centres the user can bring the map to
Centres(zoom) ==
  [lat : (-4 * MaxLat)..(4 * MaxLat), lng : (-4 * MaxLng)..(4 * MaxLng),
   zoom : {zoom}]

\* main.ts:416: the user drags the map (or Leaflet pans it for an arrow
\* key or an opening popup) to centre c; moveend fires at the end, in a
\* later turn of the event loop than the one that stopped a running pan
MapMove(c) ==
  /\ ~panning
  /\ c \in Centres(center.zoom)
  /\ c # center
  /\ center' = c
  /\ ViewUpdated(<<c>>)
  /\ UNCHANGED <<latitude, longitude, panning>>

\* main.ts:416: the zoom control, a key or a double click changes the
\* zoom by one level, not above GAMEPLAY_ZOOM_LEVEL, the maxZoom of the
\* tile layer (main.ts:55); the control and the keys keep the centre, a
\* double click zooms around the point clicked and moves it.  One moveend
\* fires, at the end of the zoom animation.
Zoom(c) ==
  /\ ~panning
  /\ c \in Centres(c.zoom)
  /\ c.zoom \in 0..MaxZoomOut
  /\ Abs(c.zoom - center.zoom) = 1
  /\ center' = c
  /\ ViewUpdated(<<c>>)
  /\ UNCHANGED <<latitude, longitude, panning>>

\* main.ts:380, 294, 262: a click on a rectangle with a bound popup opens
\* it; Leaflet calls the bound closure, that is makePopup
OpenPopup(k) ==
  /\ k \in DOMAIN rectPopup
  /\ rectPopup[k] > 0
  /\ popup' = <<makePopup(k[1], k[2], rectPopup[k], latitude, longitude,
                          playerToken)>>
  /\ UNCHANGED <<latitude, longitude, center, panning, cellCache,
                 cellLabels, rectPopup, highestValue, alerts, status,
                 playerToken, previousCell, away>>

\* a click on the map closes the popup
ClosePopup ==
  /\ popup # <<>>
  /\ popup' = <<>>
  /\ UNCHANGED <<latitude, longitude, center, panning, cellCache,
                 cellLabels, rectPopup, highestValue, alerts, status,
                 playerToken, previousCell, away>>

\* main.ts:336-338: a disabled button does not fire
ClickCollect ==
  /\ popup # <<>>
  /\ ~popup[1].collectDisabled
  /\ LET p == popup[1] IN
     /\ Commit(collectToken(Game, p.i, p.j, p.rectLive, p.value,
                            p.distance))
     /\ popup' = <<[p EXCEPT !.bound = FALSE]>>
  /\ away' = FALSE
  /\ UNCHANGED <<latitude, longitude, center, panning>>

\* main.ts:340-342
ClickDouble ==
  /\ popup # <<>>
  /\ ~popup[1].doubleDisabled
  /\ LET p == popup[1] IN
     /\ p.value * 2 <= MaxValue
     /\ Commit(doubleToken(Game, p.i, p.j, p.rectLive, p.value,
                           p.distance))
     /\ popup' = <<[p EXCEPT !.bound = FALSE]>>
  /\ away' = FALSE
  /\ UNCHANGED <<latitude, longitude, center, panning>>

Next ==
  \/ \E dir \in Directions : Move(dir)
  \/ MoveEnd
  \/ KeyDown
  \/ StopPan
  \/ \E c \in Centres(center.zoom) : MapMove(c)
  \/ \E z \in 0..MaxZoomOut : \E c \in Centres(z) : Zoom(c)
  \/ \E k \in DOMAIN rectPopup : OpenPopup(k)
  \/ ClosePopup
  \/ ClickCollect
  \/ ClickDouble

Spec == Init /\ [][Next]_vars

-----------------------------------------------------------------------------
(* The functions called directly, as a test of collectToken, doubleToken   *)
(* and setCell would call them: the distance is any of CallDistances       *)
(* instead of the one makePopup measured, and doubleToken also gets the    *)
(* values of CallValues, which no walk within MaxLat and MaxLng collects.  *)
(* The calls are made on the two cells next to the player's start.         *)

CallCells == {<<-1, 0>>, <<0, 0>>}

CallDistances == {0, COLLECTION_RADIUS, COLLECTION_RADIUS + 1, 200}

CallValues == {VALUE_THRESHOLD \div 2, VALUE_THRESHOLD}

CallCollect(k, distance) ==
  /\ k \in CallCells \cap DOMAIN rectPopup
  /\ rectPopup[k] > 0
  /\ Commit(collectToken(Game, k[1], k[2], TRUE, rectPopup[k], distance))
  /\ away' = FALSE
  /\ UNCHANGED <<latitude, longitude, center, panning, popup>>

CallDouble(k, value, distance) ==
  /\ k \in CallCells \cap DOMAIN rectPopup
  /\ rectPopup[k] > 0
  /\ value \in CallValues \cup {rectPopup[k]}
  /\ value * 2 <= MaxValue
  /\ alerts < MaxAlerts
  /\ Commit(doubleToken(Game, k[1], k[2], TRUE, value, distance))
  /\ away' = FALSE
  /\ UNCHANGED <<latitude, longitude, center, panning, popup>>

NextCalls ==
  \/ \E k \in CallCells \cap DOMAIN rectPopup, d \in CallDistances :
       CallCollect(k, d)
  \/ \E k \in CallCells \cap DOMAIN rectPopup, d \in CallDistances :
       \E v \in CallValues \cup {rectPopup[k]} : CallDouble(k, v, d)
  \/ KeyDown

SpecCalls == Init /\ [][NextCalls]_vars

-----------------------------------------------------------------------------
(* The first iteration of the game, main.ts:421-643: a fixed grid of cells *)
(* around a player who does not move.  It has no labels, no record of the  *)
(* highest value and no view update.                                       *)

\* main.ts:449 GRID_SIZE, 24 in the code: the grid is
\* -GridSize .. GridSize - 1 in both directions
GridSize == 2

\* main.ts:612-634
spawnCacheFirst(g, i, j) ==
  LET value == SpawnValue(i, j) IN
  [g EXCEPT !.cellCache = Put(@, <<i, j>>, value),
            !.rectPopup = Put(@, <<i, j>>,
                              IF IsGold(value) THEN value ELSE 0)]

\* main.ts:638-642: the two nested loops
RECURSIVE GridFrom(_, _, _)
GridFrom(g, i, j) ==
  IF i >= GridSize THEN g
  ELSE IF j >= GridSize THEN GridFrom(g, i + 1, -GridSize)
  ELSE CHOOSE r \in {GridFrom(done, i, j + 1) :
                       done \in {spawnCacheFirst(g, i, j)}} : TRUE

\* main.ts:493-525
collectTokenFirst(g, i, j, value, distance) ==
  IF distance > COLLECTION_RADIUS
  THEN [g EXCEPT !.status = StatusTooFar(distance)]
  ELSE
    LET g1 == IF g.playerToken # Null /\ g.previousCell # <<>>
              THEN LET p == g.previousCell[1] IN
                   [g EXCEPT !.cellCache = Put(@, <<p.i, p.j>>, p.value),
                             !.rectPopup = Put(@, <<p.i, p.j>>, p.value)]
              ELSE g
    IN  [g1 EXCEPT
           !.playerToken = value,
           !.previousCell = <<[i |-> i, j |-> j, value |-> value,
                               rectLive |-> TRUE]>>,
           !.status = StatusHolding(i, j, value),
           !.cellCache = Put(@, <<i, j>>, 0),
           !.rectPopup = Put(@, <<i, j>>, 0)]

\* main.ts:528-552
doubleTokenFirst(g, i, j, value, distance) ==
  IF distance > COLLECTION_RADIUS
  THEN [g EXCEPT !.status = StatusTooFar(distance)]
  ELSE
    LET newValue == value * 2 IN
    [g EXCEPT !.cellCache = Put(@, <<i, j>>, newValue),
              !.rectPopup = Put(@, <<i, j>>, newValue),
              !.playerToken = Null,
              !.previousCell = <<>>,
              !.status = StatusDouble(i, j, newValue)]

\* At CLASSROOM_LATLNG, 36.9979 degrees north (main.ts:440-443), half a
\* tile is 5.559746 m north-south but 4.440331 m east-west, whose square
\* is 19.71654 m2: the whole part and the fraction in units of 10^-5
HalfTileEastSqWhole == 19

HalfTileEastSqFrac == 71654

\* main.ts:569-570: map.distance(player, centre of cell <<i, j>>) in
\* metres, rounded up; the player stays at CLASSROOM_LATLNG
DistanceToFirst(i, j) ==
  LET dy == 2 * i + 1
      dx == 2 * j + 1
  IN  CeilSqrt(HalfTileSqWhole * dy * dy + HalfTileEastSqWhole * dx * dx
               + (HalfTileSqFrac * dy * dy + HalfTileEastSqFrac * dx * dx
                  + 99999) \div 100000)

\* main.ts:555-600
makePopupFirst(i, j, value, token) ==
  LET distance == DistanceToFirst(i, j) IN
  [i |-> i, j |-> j, value |-> value, distance |-> distance,
   collectDisabled |-> distance > COLLECTION_RADIUS,
   doubleDisabled |-> \/ distance > COLLECTION_RADIUS
                      \/ token = Null
                      \/ token # value,
   bound |-> TRUE, rectLive |-> TRUE]

\* the state after the module of the first iteration has run to its end
InitFirst ==
  /\ latitude = 0
  /\ longitude = 0
  /\ center = Origin
  /\ panning = FALSE
  /\ popup = <<>>
  /\ away = FALSE
  /\ LET g == GridFrom(Game0, -GridSize, -GridSize) IN
     /\ cellCache = g.cellCache
     /\ cellLabels = g.cellLabels
     /\ rectPopup = g.rectPopup
     /\ highestValue = g.highestValue
     /\ alerts = g.alerts
     /\ status = g.status
     /\ playerToken = g.playerToken
     /\ previousCell = g.previousCell

\* main.ts:634, 515, 546: a click on a rectangle with a bound popup opens
\* it
OpenPopupFirst(k) ==
  /\ k \in DOMAIN rectPopup
  /\ rectPopup[k] > 0
  /\ popup' = <<makePopupFirst(k[1], k[2], rectPopup[k], playerToken)>>
  /\ UNCHANGED <<latitude, longitude, center, panning, cellCache,
                 cellLabels, rectPopup, highestValue, alerts, status,
                 playerToken, previousCell, away>>

\* main.ts:591-593
ClickCollectFirst ==
  /\ popup # <<>>
  /\ ~popup[1].collectDisabled
  /\ LET p == popup[1] IN
     /\ Commit(collectTokenFirst(Game, p.i, p.j, p.value, p.distance))
     /\ popup' = <<[p EXCEPT !.bound = FALSE]>>
  /\ UNCHANGED <<latitude, longitude, center, panning, away>>

\* main.ts:595-597
ClickDoubleFirst ==
  /\ popup # <<>>
  /\ ~popup[1].doubleDisabled
  /\ LET p == popup[1] IN
     /\ p.value * 2 <= MaxValue
     /\ Commit(doubleTokenFirst(Game, p.i, p.j, p.value, p.distance))
     /\ popup' = <<[p EXCEPT !.bound = FALSE]>>
  /\ UNCHANGED <<latitude, longitude, center, panning, away>>

\* the rectangles the player clicks on
ClickCells == {<<-1, 0>>, <<0, 0>>, <<1, 0>>, <<0, 1>>}

NextFirst ==
  \/ \E k \in ClickCells \cap DOMAIN rectPopup : OpenPopupFirst(k)
  \/ ClosePopup
  \/ ClickCollectFirst
  \/ ClickDoubleFirst

SpecFirst == InitFirst /\ [][NextFirst]_vars

-----------------------------------------------------------------------------
(* Properties *)

PopupKey == <<popup[1].i, popup[1].j>>

PrevKey == <<previousCell[1].i, previousCell[1].j>>

\* no cell changes its token value in the step
SameCells ==
  \A k \in DOMAIN cellCache \cup DOMAIN cellCache' :
    CellValue(cellCache', k) = CellValue(cellCache, k)

\* cells, held token, its origin and the record are as before the step
\* (the rectangle handle kept in previousCell is not gameplay state)
SameGame ==
  /\ SameCells
  /\ playerToken' = playerToken
  /\ (previousCell = <<>>) = (previousCell' = <<>>)
  /\ previousCell # <<>> =>
       /\ PrevKey = <<previousCell'[1].i, previousCell'[1].j>>
       /\ previousCell'[1].value = previousCell[1].value
  /\ highestValue' = highestValue

\* C1 (mutation durability).  The state the last Collect or Double wrote to
\* a cell is the state of that cell when it is visible again after having
\* left the view: a collected cell is still empty, a doubled cell still
\* holds the doubled value.
C1_MutationDurable ==
  (LastWritten # <<>> /\ away /\ LastWritten[1].k \in DOMAIN rectPopup)
    => CellValue(cellCache, LastWritten[1].k) = LastWritten[1].value

\* C2 (held-token invariant).  Whenever the player holds a token, the cell
\* it was lifted from (previousCell) holds no token.
C2_HeldOriginEmpty ==
  playerToken # Null =>
    /\ previousCell # <<>>
    /\ CellValue(cellCache, PrevKey) = 0

\* C3 (collect/return symmetry).  A Collect at A that goes through while a
\* token of value h from another cell B is held leaves B with value h, A
\* with no token, and the player holding the value A had just before the
\* Collect, with origin A.
C3_CollectReturnSymmetry ==
  [][(ClickCollect /\ playerToken # Null /\ previousCell # <<>>
        /\ PrevKey # PopupKey)
      => /\ CellValue(cellCache', PrevKey) = playerToken
         /\ CellValue(cellCache', PopupKey) = 0
         /\ playerToken' = CellValue(cellCache, PopupKey)
         /\ previousCell' # <<>>
         /\ <<previousCell'[1].i, previousCell'[1].j>> = PopupKey]_vars

\* C4 (double result).  A Double that goes through sets the cell to twice
\* the value it held just before, leaves it token-bearing, clears the held
\* token, does not decrease the cell and does not decrease the record.
C4_DoubleResult ==
  [][ClickDouble
      => /\ CellValue(cellCache', PopupKey)
              = 2 * CellValue(cellCache, PopupKey)
         /\ CellValue(cellCache', PopupKey) > 0
         /\ CellValue(cellCache', PopupKey) >= CellValue(cellCache, PopupKey)
         /\ playerToken' = Null
         /\ previousCell' = <<>>
         /\ highestValue' >= highestValue]_vars

\* C5 (double rejection).  A Double attempted while no token is held, or
\* while the held value differs from the current value of the target cell,
\* changes no cell, not the held token, its origin or the record.
C5_DoubleRejected ==
  [][(ClickDouble
        /\ (playerToken = Null
             \/ playerToken # CellValue(cellCache, PopupKey)))
      => SameGame]_vars

\* C6 (too-far rejection).  A Collect or Double called with a distance
\* above COLLECTION_RADIUS changes only the status message; called with a
\* distance equal to the radius it goes through.
C6_TooFarRejected ==
  [][\A k \in CallCells \cap DOMAIN rectPopup :
       /\ \A d \in {n \in CallDistances : n > COLLECTION_RADIUS} :
            /\ CallCollect(k, d)
                 => (SameGame /\ status' = StatusTooFar(d))
            /\ \A v \in CallValues \cup {rectPopup[k]} :
                 CallDouble(k, v, d)
                   => (SameGame /\ status' = StatusTooFar(d))
       /\ CallCollect(k, COLLECTION_RADIUS)
            => /\ playerToken' = rectPopup[k]
               /\ CellValue(cellCache', k) = 0
               /\ status' = StatusHolding(k[1], k[2], rectPopup[k])
       /\ \A v \in CallValues \cup {rectPopup[k]} :
            CallDouble(k, v, COLLECTION_RADIUS)
              => /\ CellValue(cellCache', k) = 2 * v
                 /\ playerToken' = Null
                 /\ status' = StatusDouble(k[1], k[2], 2 * v)]_vars

\* a call one metre beyond the radius was rejected while a token is held
\* and a token-bearing cell is in view
C6_Witness ==
  /\ status = StatusTooFar(COLLECTION_RADIUS + 1)
  /\ playerToken # Null
  /\ \E k \in DOMAIN cellCache : cellCache[k] > 0

\* C7 (collect on an empty cell).  A Collect on a cell that holds no token
\* changes nothing; a Collect on a token-bearing cell leaves the player
\* holding the value the cell holds, so never 0 and never another value.
C7_CollectEmptyRejected ==
  [][ClickCollect
      => /\ CellValue(cellCache, PopupKey) = 0 => SameGame
         /\ CellValue(cellCache, PopupKey) > 0
              => playerToken' = CellValue(cellCache, PopupKey)]_vars

\* C8 (threshold single-fire).  The win notification is emitted at most
\* once.
C8_SingleFire == alerts <= 1

\* C9 (highest-value record).  highestValue never decreases and is at least
\* every value stored in cellCache and the value of the held token.
C9_HighestRecord ==
  /\ [](/\ \A k \in DOMAIN cellCache : cellCache[k] <= highestValue
        /\ playerToken # Null => playerToken <= highestValue)
  /\ [][highestValue' >= highestValue]_vars

\* the player holds a doubled token that no cell in view matches
C9_Witness ==
  /\ playerToken = 4
  /\ highestValue = 4
  /\ \A k \in DOMAIN cellCache : cellCache[k] < 4

\* the cells a Collect or Double step writes: its target and, for a
\* Collect, the origin of the held token
StepTargets ==
  IF ClickCollect \/ ClickDouble
  THEN {PopupKey} \cup (IF previousCell = <<>> THEN {} ELSE {PrevKey})
  ELSE {}

\* C10 (stability of untouched cells).  Every visible cell starts as
\* Generate says, and a step keeps a visible cell that it does not target
\* equal to Generate, whether the cell was visible before or has just been
\* materialized; so a cell that was never targeted equals Generate
\* whenever it is visible.
C10_UntouchedStable ==
  /\ \A k \in DOMAIN rectPopup : CellValue(cellCache, k) = Generate(k)
  /\ [][\A k \in DOMAIN rectPopup' :
          (/\ k \notin StepTargets
           /\ k \in DOMAIN rectPopup => CellValue(cellCache, k) = Generate(k))
          => CellValue(cellCache', k) = Generate(k)]_vars

\* the player has walked south holding a token; the dead cell <<-2, 0>>,
\* which has no popup and so is never a target, and a token cell are
\* visible with their generated values while another cell was written
C10_Witness ==
  /\ latitude = -1
  /\ ~panning
  /\ away
  /\ playerToken # Null
  /\ <<-2, 0>> \in DOMAIN rectPopup
  /\ CellValue(cellCache, <<-2, 0>>) = Generate(<<-2, 0>>)
  /\ CellValue(cellCache, <<-1, 0>>) = Generate(<<-1, 0>>)
  /\ Generate(<<-1, 0>>) = 2

TypeOK ==
  /\ latitude \in -MaxLat..MaxLat
  /\ longitude \in -MaxLng..MaxLng
  /\ panning \in BOOLEAN
  /\ playerToken \in {Null} \cup 0..MaxValue
  /\ highestValue \in 0..MaxValue
  /\ Len(previousCell) <= 1
  /\ Len(popup) <= 1

\* C11 (generation rule).  The cells start as Generate says: a raw value
\* in the band 1..4 other than 3 is the token value, and every other raw
\* value stores no positive value; a cell whose raw value is outside the
\* band never holds a positive value later either, since it gets no popup.
C11_GenerationRule ==
  /\ \A k \in DOMAIN rectPopup : CellValue(cellCache, k) = Generate(k)
  /\ [](\A k \in DOMAIN rectPopup :
          Generate(k) = 0 => CellValue(cellCache, k) = 0)

\* a view update: a player move, any other key press, or moveend
ViewUpdate ==
  \/ \E dir \in Directions : Move(dir)
  \/ MoveEnd
  \/ KeyDown
  \/ StopPan
  \/ \E c \in Centres(center.zoom) : MapMove(c)
  \/ \E z \in 0..MaxZoomOut : \E c \in Centres(z) : Zoom(c)

\* C12 (view-update idempotence).  A view update leaves every cell that
\* is live before it and still in view after it with the token value it
\* had.
C12_ViewUpdateIdempotent ==
  [][ViewUpdate =>
       \A k \in DOMAIN rectPopup \cap DOMAIN rectPopup' :
         CellValue(cellCache', k) = CellValue(cellCache, k)]_vars

\* C13 (re-validation at attempt time).  A Collect or Double that changes
\* the game does so only when, in the state it runs in, the player is
\* within the radius of the cell, the cell holds a token and, for a
\* Double, the held token equals the cell's value.
C13_Revalidated ==
  [][/\ (ClickCollect /\ ~SameGame) =>
          /\ ~isTooFar(DistanceTo(latitude, longitude,
                                  popup[1].i, popup[1].j))
          /\ CellValue(cellCache, PopupKey) > 0
     /\ (ClickDouble /\ ~SameGame) =>
          /\ ~isTooFar(DistanceTo(latitude, longitude,
                                  popup[1].i, popup[1].j))
          /\ playerToken # Null
          /\ playerToken = CellValue(cellCache, PopupKey)]_vars

\* C14 (live set bounded by the view).  Every key that has a cellCache or
\* a cellLabels entry lies in the rectangle the last view update
\* computed, which is the rectangle around the map centre.
C14_LiveInView ==
  \A k \in DOMAIN cellCache \cup DOMAIN cellLabels : InView(center, k)

\* C15 (win notification on first crossing).  The step that takes the
\* highest-value record from below VALUE_THRESHOLD to it or above raises
\* the alert, and no alert was raised while the record is below it.
C15_WinOnCrossing ==
  /\ [](highestValue < VALUE_THRESHOLD => alerts = 0)
  /\ [][(highestValue < VALUE_THRESHOLD
           /\ highestValue' >= VALUE_THRESHOLD)
          => alerts' = alerts + 1]_vars

\* the record has just reached the threshold itself by a Double, and the
\* alert was raised
C15_Witness ==
  /\ highestValue = VALUE_THRESHOLD
  /\ alerts = 1
  /\ status.kind = "double"
  /\ status.value = VALUE_THRESHOLD

RECURSIVE SumOver(_, _)
SumOver(f, keys) ==
  IF keys = {} THEN 0
  ELSE LET k == CHOOSE x \in keys : TRUE IN f[k] + SumOver(f, keys \ {k})

\* the held token's value plus the token values of all cells
TotalValue(cache, token) ==
  SumOver(cache, DOMAIN cache) + (IF token = Null THEN 0 ELSE token)

\* the view was not updated since the open popup was built nor since the
\* held token was collected: their rectangles are still on the map
NoViewUpdateSince ==
  /\ popup[1].rectLive
  /\ previousCell # <<>> => previousCell[1].rectLive

\* C16 (token conservation).  With no view update in between, every
\* Collect and Double click, also one in a popup that was built before an
\* earlier operation, keeps the total of the held value and the cell
\* values.
C16_Conservation ==
  [][((ClickCollect \/ ClickDouble) /\ NoViewUpdateSince)
       => TotalValue(cellCache', playerToken')
            = TotalValue(cellCache, playerToken)]_vars

\* C17 (held-token bookkeeping).  playerToken is set exactly when
\* previousCell is, and then equals previousCell.value; a Collect click
\* sets both and a Double click clears both.
C17_HeldBookkeeping ==
  /\ []((playerToken # Null) = (previousCell # <<>>))
  /\ [](previousCell # <<>> => playerToken = previousCell[1].value)
  /\ [][/\ ClickCollect => (playerToken' # Null /\ previousCell' # <<>>)
        /\ ClickDouble => (playerToken' = Null /\ previousCell' = <<>>)]_vars

\* a token is held again after an earlier Double cleared hand and origin
C17_Witness ==
  /\ playerToken # Null
  /\ previousCell # <<>>
  /\ previousCell[1].value = playerToken
  /\ highestValue >= 4
  /\ status.kind = "holding"

PowerOfTwo(n) == \E e \in 0..13 : n = 2 ^ e

\* C18 (power-of-two values).  Every positive value in a cell or in the
\* player's hand is a power of two, and the highest-value record is 0 or
\* a power of two.
C18_PowersOfTwo ==
  /\ \A k \in DOMAIN cellCache : cellCache[k] > 0 => PowerOfTwo(cellCache[k])
  /\ playerToken > 0 => PowerOfTwo(playerToken)
  /\ highestValue = 0 \/ PowerOfTwo(highestValue)

\* a cell generated with 2 holds 4 after a Double, a generated 1 is in
\* view and the player holds a token
C18_Witness ==
  /\ \E k \in DOMAIN cellCache : cellCache[k] = 4 /\ Generate(k) = 2
  /\ \E k \in DOMAIN cellCache : cellCache[k] = 1
  /\ playerToken > 0
  /\ highestValue = 4
====
